---- MODULE Spec2Model ----
(***************************************************************************)
(* Model of discord-webhook-helper (src/src/index.ts): the DiscordWebhook  *)
(* client (constructor, send, sendStatus, sendEmbeds, _execute) and the    *)
(* EmbedBuilder.                                                           *)
(*                                                                         *)
(* Conventions.  An optional JavaScript value is a sequence of length at   *)
(* most one: << >> is undefined (or an absent key), <<v>> is the value v.  *)
(* The webhook URL is a sequence of characters, since the constructor      *)
(* looks at its prefix; every other string is an atom.  A thrown value is  *)
(* a record [isError, name, message], the message being the sequence of    *)
(* the pieces the template literal concatenates.  A JSON object is the set *)
(* of its <<key, value>> members.                                          *)
(***************************************************************************)
EXTENDS Integers, Sequences, FiniteSets, TLC

VARIABLES
    client,     \* the constructed DiscordWebhook, << >> while there is none
    ctor,       \* the last constructor call: its webhookUrl and what it threw
    calls,      \* per call of send / sendStatus / sendEmbeds: its progress
    embed,      \* the embed of an EmbedBuilder (this.embed)
    twin,       \* the embed of a second builder, given the same calls with
                \* every addFields(fields) made as one addField per element
    appended,   \* the fields appended to the builder so far, in order
    accum,      \* the embed every mutator call made on the builder since its
                \* creation adds up to
    last        \* the latest call made on the builder, and what build() returned

clientVars == <<client, ctor, calls>>
builderVars == <<embed, twin, appended>>
trackVars == <<accum, last>>
vars == <<client, ctor, calls, embed, twin, appended, accum, last>>

----------------------------------------------------------------------------
(* Bounds of the model *)

\* longest embed list handed to sendEmbeds
MaxEmbedLen == 11
\* latest instant new Date() may read
MaxNow == 1
\* most fields appended to one builder
MaxFields == 3

(* Program constants *)

\* embeds.length > 10
MAX_EMBEDS == 10
\* options.timeout || 10000
DEFAULT_TIMEOUT == 10000

----------------------------------------------------------------------------
(* Optional values *)

Undefined == << >>
Some(v) == <<v>>

\* JavaScript truthiness of an optional string atom
TruthyString(o) == o # Undefined /\ o[1] # ""
\* JavaScript truthiness of an optional character sequence
TruthyChars(o) == o # Undefined /\ Len(o[1]) > 0
\* JavaScript truthiness of an optional number
TruthyNumber(o) == o # Undefined /\ o[1] # 0

(* Thrown values *)

MkError(msg) == [isError |-> TRUE, name |-> "Error", message |-> msg]
AbortError == [isError |-> TRUE, name |-> "AbortError",
               message |-> <<"The user aborted a request.">>]

----------------------------------------------------------------------------
(* DiscordWebhook.constructor *)

WEBHOOK_PREFIX ==
    << "h","t","t","p","s",":","/","/",
       "d","i","s","c","o","r","d",".","c","o","m",
       "/","a","p","i",
       "/","w","e","b","h","o","o","k","s","/" >>

StartsWithShort(s, p) == Len(s) >= 8 /\ SubSeq(s, 1, 8) = SubSeq(p, 1, 8)

\* String.prototype.startsWith
StartsWith(s, p) == Len(s) >= Len(p) /\ SubSeq(s, 1, Len(p)) = p

INVALID_URL_MESSAGE == <<"Invalid webhook URL. Must be a Discord webhook URL.">>

\* what new DiscordWebhook(options) throws, and the object it yields
Constructor(options) ==
    IF ~TruthyChars(options.webhookUrl)
       \/ ~StartsWith(options.webhookUrl[1], WEBHOOK_PREFIX)
    THEN [thrown |-> Some(MkError(INVALID_URL_MESSAGE)), object |-> Undefined]
    ELSE [thrown |-> Undefined,
          object |-> Some([webhookUrl |-> options.webhookUrl[1],
                           username   |-> options.username,
                           avatarUrl  |-> options.avatarUrl,
                           timeout    |-> IF TruthyNumber(options.timeout)
                                          THEN options.timeout[1]
                                          ELSE DEFAULT_TIMEOUT])]

----------------------------------------------------------------------------
(* Embeds and the wire format *)

STATUS_COLORS ==
    [success |-> 5763719,      \* 0x57F287
     warning |-> 16705372,     \* 0xFEE75C
     error   |-> 15548997,     \* 0xED4245
     info    |-> 5793266]      \* 0x5865F2

Statuses == {"success", "warning", "error", "info"}

EmbedKeys == <<"title", "description", "url", "timestamp", "color",
               "footer", "image", "thumbnail", "fields">>

\* the DiscordEmbed {} : every key absent
EmptyEmbed ==
    [title |-> Undefined, description |-> Undefined, url |-> Undefined,
     timestamp |-> Undefined, color |-> Undefined, footer |-> Undefined,
     image |-> Undefined, thumbnail |-> Undefined, fields |-> Undefined]

\* Date.prototype.toISOString of the clock value t
ToISOString(t) == <<"1970-01-01T00:00:00.00", ToString(t), "Z">>

\* JSON.stringify of an object whose keys are optional: undefined members
\* are left out
JSONObject(keys, obj) ==
    { <<keys[i], obj[keys[i]][1]>> : i \in { j \in 1..Len(keys) : obj[keys[j]] # Undefined } }

JSONField(f) == JSONObject(<<"name", "value", "inline">>,
                           [name |-> Some(f.name), value |-> Some(f.value),
                            inline |-> f.inline])

JSONEmbed(e) ==
    JSONObject(EmbedKeys,
        [e EXCEPT
           !.footer = IF @ = Undefined THEN Undefined
                      ELSE Some(JSONObject(<<"text", "icon_url">>,
                                           [text |-> Some(@[1].text),
                                            icon_url |-> @[1].icon_url])),
           !.fields = IF @ = Undefined THEN Undefined
                      ELSE Some([i \in 1..Len(@[1]) |-> JSONField(@[1][i])])])

PayloadKeys == <<"content", "username", "avatar_url", "embeds">>

\* JSON.stringify(payload)
JSONStringify(payload) ==
    JSONObject(PayloadKeys,
        [payload EXCEPT
           !.embeds = IF @ = Undefined THEN Undefined
                      ELSE Some([i \in 1..Len(@[1]) |-> JSONEmbed(@[1][i])])])

----------------------------------------------------------------------------
(* A call of send, sendStatus or sendEmbeds *)

IdleCall ==
    [pc       |-> "idle",      \* idle, awaitFetch, awaitText, done
     op       |-> "none",      \* the method called
     args     |-> << >>,       \* its arguments
     payload  |-> Undefined,   \* the payload given to _execute
     body     |-> Undefined,   \* the request body given to fetch
     timer    |-> "none",      \* none, armed, fired, cleared
     aborted  |-> FALSE,       \* controller.signal.aborted
     requests |-> 0,           \* fetch calls issued
     timers   |-> 0,           \* setTimeout calls issued
     response |-> Undefined,   \* the response fetch resolved with
     errorText |-> Undefined,  \* the body text response.text() resolved with
     caught   |-> Undefined,   \* the value the catch block of _execute caught
     outcome  |-> Undefined]   \* << >> pending, else what the call threw

Returned == Some([thrown |-> Undefined])
Threw(err) == Some([thrown |-> Some(err)])

\* the promise of the call settles: it rejects with err
Throw(call, err) == [call EXCEPT !.pc = "done", !.outcome = Threw(err)]

\* the promise of the call settles: it resolves
Return(call) == [call EXCEPT !.pc = "done", !.outcome = Returned]

ResponseOkBelow400(status) == status >= 200 /\ status < 400

\* response.ok
ResponseOk(status) == status >= 200 /\ status <= 299

ClearTimeout(t) == IF t = "armed" THEN "cleared" ELSE t

CatchErrorNoTimeout(cl, error) ==
    IF error.isError
    THEN MkError(<<"Failed to send webhook: ">> \o error.message)
    ELSE MkError(<<"Failed to send webhook: ", "Unknown error">>)

\* the catch block of _execute: the error it throws for the error caught
CatchError(cl, error) ==
    IF error.isError
    THEN IF error.name = "AbortError"
         THEN MkError(<<"Failed to send webhook: ", "Request timeout after ",
                        ToString(cl.timeout), "ms">>)
         ELSE MkError(<<"Failed to send webhook: ">> \o error.message)
    ELSE MkError(<<"Failed to send webhook: ", "Unknown error">>)

\* _execute up to its first await: the timer is armed and fetch is called
ExecuteStart(cl, call, payload) ==
    [call EXCEPT !.payload  = Some(payload),
                 !.timer    = "armed",
                 !.timers   = @ + 1,
                 !.body     = Some(JSONStringify(payload)),
                 !.requests = @ + 1,
                 !.pc       = "awaitFetch"]

\* _execute resumed with the response of fetch
OnFetchResolved(cl, call, resp) ==
    LET c1 == [call EXCEPT !.response = Some(resp),
                           !.timer = ClearTimeout(@)]
    IN  IF ~ResponseOk(resp.status)
        THEN [c1 EXCEPT !.pc = "awaitText"]
        ELSE Return(c1)

CatchAsTimeout(cl, call, error) ==
    Throw([call EXCEPT !.caught = Some(error)], CatchError(cl, AbortError))

\* control reaches the catch block of _execute with error
Catch(cl, call, error) ==
    Throw([call EXCEPT !.caught = Some(error)], CatchError(cl, error))

OnFetchRejectedRetry(cl, call, error) ==
    IF call.requests < 2
    THEN [call EXCEPT !.requests = @ + 1]
    ELSE Catch(cl, call, error)

\* _execute resumed with the rejection of fetch
OnFetchRejected(cl, call, error) == Catch(cl, call, error)

\* _execute resumed with the text of the response body
OnTextResolved(cl, call, errorText) ==
    Catch(cl, [call EXCEPT !.errorText = Some(errorText)],
          MkError(<<"Discord API error: ",
                    ToString(call.response[1].status), " ",
                    call.response[1].statusText, " - ", errorText>>))

\* _execute resumed with the rejection of response.text()
OnTextRejected(cl, call, error) == Catch(cl, call, error)

\* the timer callback: controller.abort(), which rejects what is awaited
OnTimer(cl, call) ==
    LET c1 == [call EXCEPT !.timer = "fired", !.aborted = TRUE]
    IN  IF call.pc \in {"awaitFetch", "awaitText"}
        THEN Catch(cl, c1, AbortError)
        ELSE c1

SignalHoldersShared(cs, c) ==
    {c} \cup {d \in DOMAIN cs : cs[d].pc \in {"awaitFetch", "awaitText"}}

\* the calls whose fetch was given the signal of the controller that call c
\* created: controller is a local of _execute, so call c alone
SignalHolders(cs, c) == {c}

\* the timer callback of call c, as every call of the client sees it
OnAbort(cl, cs, c) ==
    [d \in DOMAIN cs |->
        IF d = c
        THEN OnTimer(cl, cs[d])
        ELSE IF d \in SignalHolders(cs, c)
                /\ cs[d].pc \in {"awaitFetch", "awaitText"}
             THEN Catch(cl, [cs[d] EXCEPT !.aborted = TRUE], AbortError)
             ELSE cs[d]]

----------------------------------------------------------------------------
(* The send operations, up to their first await *)

sendValidating(cl, call, content, embeds) ==
    LET c0 == [call EXCEPT !.op = "send",
                           !.args = [content |-> content, embeds |-> embeds]]
    IN  IF embeds # Undefined /\ Len(embeds[1]) > MAX_EMBEDS
        THEN Throw(c0, MkError(<<"Maximum 10 embeds allowed per message">>))
        ELSE ExecuteStart(cl, c0,
                 [content |-> Some(content), username |-> cl.username,
                  avatar_url |-> cl.avatarUrl, embeds |-> embeds])

\* DiscordWebhook.send
send(cl, call, content, embeds) ==
    ExecuteStart(cl,
        [call EXCEPT !.op = "send",
                     !.args = [content |-> content, embeds |-> embeds]],
        [content |-> Some(content), username |-> cl.username,
         avatar_url |-> cl.avatarUrl, embeds |-> embeds])

StatusEmbedKeepEmpty(status, title, description, fields, imageUrl, t) ==
    [EmptyEmbed EXCEPT
        !.title = Some(title),
        !.color = Some(STATUS_COLORS[status]),
        !.timestamp = Some(ToISOString(t)),
        !.description = description,
        !.fields = fields,
        !.image = IF imageUrl # Undefined THEN Some([url |-> imageUrl[1]])
                  ELSE Undefined]

\* the embed sendStatus constructs
StatusEmbed(status, title, description, fields, imageUrl, t) ==
    [EmptyEmbed EXCEPT
        !.title = Some(title),
        !.color = Some(STATUS_COLORS[status]),
        !.timestamp = Some(ToISOString(t)),
        !.description = IF TruthyString(description) THEN Some(description[1])
                        ELSE Undefined,
        !.fields = IF fields # Undefined /\ Len(fields[1]) > 0
                   THEN Some(fields[1]) ELSE Undefined,
        !.image = IF TruthyString(imageUrl) THEN Some([url |-> imageUrl[1]])
                  ELSE Undefined]

\* DiscordWebhook.sendStatus
sendStatus(cl, call, status, title, description, fields, imageUrl, t) ==
    ExecuteStart(cl,
        [call EXCEPT !.op = "sendStatus",
                     !.args = [status |-> status, title |-> title,
                               description |-> description,
                               fields |-> fields, imageUrl |-> imageUrl]],
        [content |-> Undefined, username |-> cl.username,
         avatar_url |-> cl.avatarUrl,
         embeds |-> Some(<<StatusEmbed(status, title, description, fields,
                                       imageUrl, t)>>)])

EmbedsPayloadReversed(cl, embeds) ==
    [content |-> Undefined, username |-> cl.username,
     avatar_url |-> cl.avatarUrl,
     embeds |-> Some([i \in 1..Len(embeds) |-> embeds[Len(embeds) + 1 - i]])]

\* the payload sendEmbeds hands to _execute
EmbedsPayload(cl, embeds) ==
    [content |-> Undefined, username |-> cl.username,
     avatar_url |-> cl.avatarUrl, embeds |-> Some(embeds)]

EmbedsCheckOffByOne(embeds) ==
    IF Len(embeds) = 0
    THEN Some(MkError(<<"At least one embed is required">>))
    ELSE IF Len(embeds) > MAX_EMBEDS + 1
         THEN Some(MkError(<<"Maximum 10 embeds allowed per message">>))
         ELSE Undefined

\* the length checks of sendEmbeds: the error they throw, if any
EmbedsCheck(embeds) ==
    IF Len(embeds) = 0
    THEN Some(MkError(<<"At least one embed is required">>))
    ELSE IF Len(embeds) > MAX_EMBEDS
         THEN Some(MkError(<<"Maximum 10 embeds allowed per message">>))
         ELSE Undefined

\* DiscordWebhook.sendEmbeds
sendEmbeds(cl, call, embeds) ==
    LET c0 == [call EXCEPT !.op = "sendEmbeds", !.args = [embeds |-> embeds]]
    IN  IF EmbedsCheck(embeds) # Undefined
        THEN Throw(c0, EmbedsCheck(embeds)[1])
        ELSE ExecuteStart(cl, c0, EmbedsPayload(cl, embeds))

----------------------------------------------------------------------------
(* Inputs *)

EmbedA == [EmptyEmbed EXCEPT !.title = Some("A")]
EmbedPool == {EmptyEmbed, EmbedA}
OtherEmbed(e) == IF e = EmbedA THEN EmptyEmbed ELSE EmbedA

\* the list of n embeds that alternates, beginning with first
Alternating(n, first) ==
    [i \in 1..n |-> IF i % 2 = 1 THEN first ELSE OtherEmbed(first)]

\* embed lists of every length 0..MaxEmbedLen: all of them up to length 2,
\* the two alternating ones beyond
EmbedSeqs ==
    UNION { [1..n -> EmbedPool] : n \in 0..2 }
    \cup { Alternating(n, e) : n \in 3..MaxEmbedLen, e \in EmbedPool }

FieldA == [name |-> "a", value |-> "1", inline |-> Undefined]
FieldB == [name |-> "b", value |-> "2", inline |-> Some(TRUE)]

ExampleUrl ==
    << "h","t","t","p","s",":","/","/","e","x","a","m","p","l","e",".","c","o","m",
       "/","w","e","b","h","o","o","k" >>

\* webhook URLs tried: every proper prefix of the required prefix (the empty
\* string among them), the prefix itself, the prefix followed by an id and a
\* token, the prefix preceded by a character, http instead of https, and
\* the URL of the test suite
UrlStrings ==
    { SubSeq(WEBHOOK_PREFIX, 1, k) : k \in 0..Len(WEBHOOK_PREFIX) }
    \cup { WEBHOOK_PREFIX \o <<"1", "/", "a">>,
           <<" ">> \o WEBHOOK_PREFIX,
           SubSeq(WEBHOOK_PREFIX, 1, 4) \o SubSeq(WEBHOOK_PREFIX, 6, Len(WEBHOOK_PREFIX)),
           ExampleUrl }

OptionSets ==
    [webhookUrl : {Undefined} \cup { Some(u) : u \in UrlStrings },
     username   : {Undefined, Some("AVA")},
     avatarUrl  : {Undefined, Some("https://a/avatar.png")},
     timeout    : {Undefined, Some(0), Some(50)}]

Contents == {"", "hello"}
SendEmbedArgs == {Undefined, Some(<< >>), Some(<<EmbedA>>),
                  Some(Alternating(MaxEmbedLen, EmbedA))}
Titles == {"OK"}
Descriptions == {Undefined, Some(""), Some("all good")}
FieldArgs == {Undefined, Some(<< >>), Some(<<FieldB, FieldA>>)}
ImageUrls == {Undefined, Some(""), Some("https://i/x.png")}

StatusText(s) ==
    CASE s = 200 -> "OK"
      [] s = 299 -> "Custom"
      [] s = 300 -> "Multiple Choices"
      [] s = 404 -> "Not Found"
      [] OTHER   -> "Internal Server Error"

\* responses the transport may deliver
Responses ==
    { [status |-> s, statusText |-> StatusText(s)] :
        s \in {200, 299, 300, 404, 500} }

BodyTexts == {"", "Unknown Webhook"}

\* what fetch of node-fetch may reject with, the abort apart: a FetchError,
\* which is an Error
FetchFailures ==
    { [isError |-> TRUE, name |-> "FetchError",
       message |-> <<"request to discord.com failed, reason: ENOTFOUND">>],
      [isError |-> TRUE, name |-> "FetchError",
       message |-> <<"request to discord.com failed, reason: ECONNREFUSED">>] }

\* what response.text() of node-fetch may reject with while the timer is
\* cleared: a FetchError
BodyFailures ==
    { [isError |-> TRUE, name |-> "FetchError",
       message |-> <<"Invalid response body while trying to fetch: Premature close">>] }

TransportFailures == FetchFailures \cup BodyFailures

----------------------------------------------------------------------------
(* The state machine *)

CallIds == {1}

\* no call has been made on the builder yet
NoCall == [op |-> "none", status |-> "", returned |-> Undefined,
           previous |-> Undefined, earlier |-> FALSE]

Init ==
    /\ client = Undefined
    /\ ctor = [webhookUrl |-> Undefined, thrown |-> Undefined, calls |-> 0]
    /\ calls = [c \in CallIds |-> IdleCall]
    /\ embed = EmptyEmbed
    /\ twin = EmptyEmbed
    /\ appended = << >>
    /\ accum = EmptyEmbed
    /\ last = NoCall

\* new DiscordWebhook(options)
Construct(options) ==
    /\ client = Undefined
    /\ client' = Constructor(options).object
    /\ ctor' = [webhookUrl |-> options.webhookUrl,
                thrown |-> Constructor(options).thrown,
                calls |-> 1]
    /\ UNCHANGED <<calls, builderVars, trackVars>>

\* webhook.send(content, embeds)
Send(c, content, embeds) ==
    /\ client # Undefined
    /\ calls[c].pc = "idle"
    /\ calls' = [calls EXCEPT ![c] = send(client[1], @, content, embeds)]
    /\ UNCHANGED <<client, ctor, builderVars, trackVars>>

\* webhook.sendStatus(status, title, description, fields, imageUrl), with
\* new Date() reading the instant t
SendStatus(c, status, title, description, fields, imageUrl, t) ==
    /\ client # Undefined
    /\ calls[c].pc = "idle"
    /\ calls' = [calls EXCEPT ![c] =
                    sendStatus(client[1], @, status, title, description,
                               fields, imageUrl, t)]
    /\ UNCHANGED <<client, ctor, builderVars, trackVars>>

\* webhook.sendEmbeds(embeds)
SendEmbeds(c, embeds) ==
    /\ client # Undefined
    /\ calls[c].pc = "idle"
    /\ calls' = [calls EXCEPT ![c] = sendEmbeds(client[1], @, embeds)]
    /\ UNCHANGED <<client, ctor, builderVars, trackVars>>

\* the transport delivers the status line and headers of a response
FetchResolve(c, resp) ==
    /\ calls[c].pc = "awaitFetch"
    /\ calls' = [calls EXCEPT ![c] = OnFetchResolved(client[1], @, resp)]
    /\ UNCHANGED <<client, ctor, builderVars, trackVars>>

\* the transport fails before a response
FetchReject(c, error) ==
    /\ calls[c].pc = "awaitFetch"
    /\ calls' = [calls EXCEPT ![c] = OnFetchRejected(client[1], @, error)]
    /\ UNCHANGED <<client, ctor, builderVars, trackVars>>

\* the transport delivers the whole body of a non-2xx response
TextResolve(c, text) ==
    /\ calls[c].pc = "awaitText"
    /\ calls' = [calls EXCEPT ![c] = OnTextResolved(client[1], @, text)]
    /\ UNCHANGED <<client, ctor, builderVars, trackVars>>

\* the transport fails while the body is read
TextReject(c, error) ==
    /\ calls[c].pc = "awaitText"
    /\ calls' = [calls EXCEPT ![c] = OnTextRejected(client[1], @, error)]
    /\ UNCHANGED <<client, ctor, builderVars, trackVars>>

\* the deadline timer of the call fires
TimerFire(c) ==
    /\ calls[c].timer = "armed"
    /\ calls' = OnAbort(client[1], calls, c)
    /\ UNCHANGED <<client, ctor, builderVars, trackVars>>

Next ==
    \/ client = Undefined /\ \E o \in OptionSets : Construct(o)
    \/ \E c \in CallIds, content \in Contents, e \in SendEmbedArgs :
          Send(c, content, e)
    \/ \E c \in CallIds, s \in Statuses, t \in Titles, d \in Descriptions,
          f \in FieldArgs, i \in ImageUrls, n \in 0..MaxNow :
          SendStatus(c, s, t, d, f, i, n)
    \/ \E c \in CallIds, e \in EmbedSeqs : SendEmbeds(c, e)
    \/ \E c \in CallIds, r \in Responses : FetchResolve(c, r)
    \/ \E c \in CallIds, x \in FetchFailures : FetchReject(c, x)
    \/ \E c \in CallIds, t \in BodyTexts : TextResolve(c, t)
    \/ \E c \in CallIds, x \in BodyFailures : TextReject(c, x)
    \/ \E c \in CallIds : TimerFire(c)

Spec == Init /\ [][Next]_vars

\* the event loop runs the callback of every timer that stays armed; the
\* transport is under no obligation to deliver anything
TimerFairness == \A c \in CallIds : WF_vars(TimerFire(c))

SpecLive == Init /\ [][Next]_vars /\ TimerFairness

----------------------------------------------------------------------------
(* Two callers sharing one client *)

ConcurrentCallIds == {1, 2}

ValidUrl == WEBHOOK_PREFIX \o <<"1", "/", "a">>

ConcurrentOptionSets ==
    [webhookUrl : {Some(ValidUrl)},
     username   : {Undefined, Some("AVA")},
     avatarUrl  : {Undefined},
     timeout    : {Undefined, Some(50)}]

ConcurrentResponses == { r \in Responses : r.status \in {200, 404} }

InitConcurrent ==
    /\ client = Undefined
    /\ ctor = [webhookUrl |-> Undefined, thrown |-> Undefined, calls |-> 0]
    /\ calls = [c \in ConcurrentCallIds |-> IdleCall]
    /\ embed = EmptyEmbed
    /\ twin = EmptyEmbed
    /\ appended = << >>
    /\ accum = EmptyEmbed
    /\ last = NoCall

\* the calls of the two callers and the events of their requests and
\* timers, in every order
NextConcurrent ==
    \/ client = Undefined /\ \E o \in ConcurrentOptionSets : Construct(o)
    \/ \E c \in ConcurrentCallIds, e \in {Undefined, Some(<<EmbedA>>)} :
          Send(c, "hello", e)
    \/ \E c \in ConcurrentCallIds :
          SendStatus(c, "info", "OK", Undefined, Undefined, Undefined, 0)
    \/ \E c \in ConcurrentCallIds, e \in {<< >>, <<EmbedA>>} : SendEmbeds(c, e)
    \/ \E c \in ConcurrentCallIds, r \in ConcurrentResponses : FetchResolve(c, r)
    \/ \E c \in ConcurrentCallIds, x \in FetchFailures : FetchReject(c, x)
    \/ \E c \in ConcurrentCallIds, t \in BodyTexts : TextResolve(c, t)
    \/ \E c \in ConcurrentCallIds, x \in BodyFailures : TextReject(c, x)
    \/ \E c \in ConcurrentCallIds : TimerFire(c)

SpecConcurrent == InitConcurrent /\ [][NextConcurrent]_vars

----------------------------------------------------------------------------
(* EmbedBuilder: each mutator as the embed it leaves in this.embed *)

setTitle(e, title) == [e EXCEPT !.title = Some(title)]

setDescription(e, description) == [e EXCEPT !.description = Some(description)]

setColor(e, color) == [e EXCEPT !.color = Some(color)]

setStatusColorIfUnset(e, status) ==
    IF e.color = Undefined THEN [e EXCEPT !.color = Some(STATUS_COLORS[status])]
    ELSE e

setStatusColor(e, status) == [e EXCEPT !.color = Some(STATUS_COLORS[status])]

setUrl(e, url) == [e EXCEPT !.url = Some(url)]

setTimestamp(e, t) == [e EXCEPT !.timestamp = Some(ToISOString(t))]

setFooter(e, text, iconUrl) ==
    [e EXCEPT !.footer = Some([text |-> text, icon_url |-> iconUrl])]

setImage(e, url) == [e EXCEPT !.image = Some([url |-> url])]

setThumbnail(e, url) == [e EXCEPT !.thumbnail = Some([url |-> url])]

\* this.embed.fields once "if (!this.embed.fields) this.embed.fields = []" ran
FieldsOrEmpty(e) == IF e.fields = Undefined THEN << >> ELSE e.fields[1]

addFieldPrepend(e, name, value, inline) ==
    [e EXCEPT !.fields =
        Some(<<[name |-> name, value |-> value,
                inline |-> Some(IF inline = Undefined THEN FALSE ELSE inline[1])]>>
             \o FieldsOrEmpty(e))]

\* addField(name, value, inline = false)
addField(e, name, value, inline) ==
    [e EXCEPT !.fields =
        Some(Append(FieldsOrEmpty(e),
                    [name |-> name, value |-> value,
                     inline |-> Some(IF inline = Undefined THEN FALSE
                                     ELSE inline[1])]))]

\* addFields(fields): push(...fields)
addFields(e, fields) == [e EXCEPT !.fields = Some(FieldsOrEmpty(e) \o fields)]

build(e) == e

\* addField(f.name, f.value, f.inline) for each f of fields, in order
RECURSIVE AddFieldEach(_, _)
AddFieldEach(e, fields) ==
    IF fields = << >> THEN e
    ELSE AddFieldEach(addField(e, Head(fields).name, Head(fields).value,
                               Head(fields).inline),
                      Tail(fields))

----------------------------------------------------------------------------
(* The builder's state machine *)

BuilderTitles == {"Build Report"}
BuilderDescriptions == {"Build #456 completed successfully"}
BuilderColors == {16777216}
BuilderUrls == {"https://example.com"}
FooterTexts == {"Powered by AVA"}
IconUrls == {Undefined, Some("https://i/icon.png")}
MediaUrls == {"https://i/x.png"}

\* the calls of addField made: a field without inline, a field with it
AddFieldArgs == { <<"a", "1", Undefined>>, <<"b", "2", Some(TRUE)>> }

\* the lists given to addFields
AddFieldsArgs == UNION { [1..n -> {FieldA, FieldB}] : n \in 0..2 }

SetTitle(title) ==
    /\ embed' = setTitle(embed, title)
    /\ twin' = setTitle(twin, title)
    /\ UNCHANGED <<appended, clientVars>>

SetDescription(description) ==
    /\ embed' = setDescription(embed, description)
    /\ twin' = setDescription(twin, description)
    /\ UNCHANGED <<appended, clientVars>>

SetColor(color) ==
    /\ embed' = setColor(embed, color)
    /\ twin' = setColor(twin, color)
    /\ UNCHANGED <<appended, clientVars>>

SetStatusColor(status) ==
    /\ embed' = setStatusColor(embed, status)
    /\ twin' = setStatusColor(twin, status)
    /\ UNCHANGED <<appended, clientVars>>

SetUrl(url) ==
    /\ embed' = setUrl(embed, url)
    /\ twin' = setUrl(twin, url)
    /\ UNCHANGED <<appended, clientVars>>

SetTimestamp(t) ==
    /\ embed' = setTimestamp(embed, t)
    /\ twin' = setTimestamp(twin, t)
    /\ UNCHANGED <<appended, clientVars>>

SetFooter(text, iconUrl) ==
    /\ embed' = setFooter(embed, text, iconUrl)
    /\ twin' = setFooter(twin, text, iconUrl)
    /\ UNCHANGED <<appended, clientVars>>

SetImage(url) ==
    /\ embed' = setImage(embed, url)
    /\ twin' = setImage(twin, url)
    /\ UNCHANGED <<appended, clientVars>>

SetThumbnail(url) ==
    /\ embed' = setThumbnail(embed, url)
    /\ twin' = setThumbnail(twin, url)
    /\ UNCHANGED <<appended, clientVars>>

AddField(name, value, inline) ==
    /\ Len(appended) < MaxFields
    /\ embed' = addField(embed, name, value, inline)
    /\ twin' = addField(twin, name, value, inline)
    /\ appended' = Append(appended,
                          [name |-> name, value |-> value,
                           inline |-> IF inline = Undefined THEN Some(FALSE)
                                      ELSE inline])
    /\ UNCHANGED clientVars

AddFields(fields) ==
    /\ Len(appended) + Len(fields) <= MaxFields
    /\ embed' = addFields(embed, fields)
    /\ twin' = AddFieldEach(twin, fields)
    /\ appended' = appended \o fields
    /\ UNCHANGED clientVars

BuilderNext ==
    \/ \E t \in BuilderTitles : SetTitle(t) /\ UNCHANGED trackVars
    \/ \E d \in BuilderDescriptions : SetDescription(d) /\ UNCHANGED trackVars
    \/ \E c \in BuilderColors : SetColor(c) /\ UNCHANGED trackVars
    \/ \E s \in Statuses : SetStatusColor(s) /\ UNCHANGED trackVars
    \/ \E u \in BuilderUrls : SetUrl(u) /\ UNCHANGED trackVars
    \/ \E t \in 0..MaxNow : SetTimestamp(t) /\ UNCHANGED trackVars
    \/ \E t \in FooterTexts, i \in IconUrls : SetFooter(t, i) /\ UNCHANGED trackVars
    \/ \E u \in MediaUrls : SetImage(u) /\ UNCHANGED trackVars
    \/ \E u \in MediaUrls : SetThumbnail(u) /\ UNCHANGED trackVars
    \/ \E a \in AddFieldArgs : AddField(a[1], a[2], a[3]) /\ UNCHANGED trackVars
    \/ \E f \in AddFieldsArgs : AddFields(f) /\ UNCHANGED trackVars

SpecBuilder == Init /\ [][BuilderNext]_vars

----------------------------------------------------------------------------
(* The builder with its calls followed: what the latest call was, what     *)
(* build() returned, and what the mutator calls add up to                  *)

afterBuildReset(e) == EmptyEmbed

\* this.embed once build() has returned: build() assigns nothing
afterBuild(e) == e

\* the record of a mutator call; earlier: a build() was made before it
Mutator(op, status) ==
    [op |-> op, status |-> status, returned |-> Undefined,
     previous |-> Undefined, earlier |-> last.earlier \/ last.op = "build"]

\* builder.build(): returned is its result, previous the result of the
\* build() made just before it, if no mutator was called in between
Build ==
    /\ embed' = afterBuild(embed)
    /\ last' = [op |-> "build", status |-> "", returned |-> Some(build(embed)),
                previous |-> IF last.op = "build" THEN last.returned
                             ELSE Undefined,
                earlier |-> last.earlier]
    /\ UNCHANGED <<accum, twin, appended, clientVars>>

\* the lists given to addFields when the calls are followed
FollowedFieldsArgs == { << >>, <<FieldB>> }

FollowedNext ==
    \/ \E t \in BuilderTitles :
          SetTitle(t) /\ accum' = setTitle(accum, t)
                      /\ last' = Mutator("mutator", "")
    \/ \E d \in BuilderDescriptions :
          SetDescription(d) /\ accum' = setDescription(accum, d)
                            /\ last' = Mutator("mutator", "")
    \/ \E c \in BuilderColors :
          SetColor(c) /\ accum' = setColor(accum, c)
                      /\ last' = Mutator("mutator", "")
    \/ \E s \in Statuses :
          SetStatusColor(s) /\ accum' = setStatusColor(accum, s)
                            /\ last' = Mutator("setStatusColor", s)
    \/ \E u \in BuilderUrls :
          SetUrl(u) /\ accum' = setUrl(accum, u)
                    /\ last' = Mutator("mutator", "")
    \/ \E t \in {MaxNow} :
          SetTimestamp(t) /\ accum' = setTimestamp(accum, t)
                          /\ last' = Mutator("mutator", "")
    \/ \E t \in FooterTexts, i \in {Undefined} :
          SetFooter(t, i) /\ accum' = setFooter(accum, t, i)
                          /\ last' = Mutator("mutator", "")
    \/ \E u \in MediaUrls :
          SetImage(u) /\ accum' = setImage(accum, u)
                      /\ last' = Mutator("mutator", "")
    \/ \E u \in MediaUrls :
          SetThumbnail(u) /\ accum' = setThumbnail(accum, u)
                          /\ last' = Mutator("mutator", "")
    \/ \E a \in AddFieldArgs :
          AddField(a[1], a[2], a[3])
          /\ accum' = addField(accum, a[1], a[2], a[3])
          /\ last' = Mutator("mutator", "")
    \/ \E f \in FollowedFieldsArgs :
          AddFields(f) /\ accum' = addFields(accum, f)
                       /\ last' = Mutator("mutator", "")
    \/ Build

SpecFollowed == Init /\ [][FollowedNext]_vars

----------------------------------------------------------------------------
(* The error taxonomy: the kind of a thrown Error, read off its message *)

IsConfigurationError(e) ==
    e.isError /\ e.message = <<"Invalid webhook URL. Must be a Discord webhook URL.">>

IsValidationError(e) ==
    e.isError /\ e.message \in { <<"At least one embed is required">>,
                                 <<"Maximum 10 embeds allowed per message">> }

IsTimeoutError(e) ==
    /\ e.isError
    /\ Len(e.message) = 4
    /\ e.message[1] = "Failed to send webhook: "
    /\ e.message[2] = "Request timeout after "
    /\ e.message[4] = "ms"

IsRemoteError(e) ==
    /\ e.isError
    /\ Len(e.message) = 7
    /\ e.message[1] = "Failed to send webhook: "
    /\ e.message[2] = "Discord API error: "

IsTransportError(e) ==
    /\ e.isError
    /\ Len(e.message) >= 2
    /\ e.message[1] = "Failed to send webhook: "
    /\ ~IsTimeoutError(e)
    /\ ~IsRemoteError(e)

\* the call has ended and threw
HasThrown(call) ==
    call.pc = "done" /\ call.outcome # Undefined /\ call.outcome[1].thrown # Undefined

\* the error a call that threw has thrown
ThrownBy(call) == call.outcome[1].thrown[1]

\* the value of member key of JSON object obj, as an optional value
Member(obj, key) ==
    IF \E m \in obj : m[1] = key
    THEN Some((CHOOSE m \in obj : m[1] = key)[2])
    ELSE Undefined

----------------------------------------------------------------------------
(* Claims *)

\* C1: a call of sendEmbeds with 0 embeds, or with more than 10, has ended
\* with a ValidationError, and has started no request and armed no timer.
C1_InvalidCountRejectedLocally ==
    \A c \in DOMAIN calls :
        LET call == calls[c] IN
        (call.op = "sendEmbeds"
         /\ (Len(call.args.embeds) = 0 \/ Len(call.args.embeds) >= 11))
        => /\ HasThrown(call)
           /\ IsValidationError(ThrownBy(call))
           /\ call.requests = 0
           /\ call.timers = 0
           /\ call.timer = "none"
           /\ call.payload = Undefined
           /\ call.body = Undefined

C1_Witness ==
    \E c \in DOMAIN calls :
        /\ calls[c].op = "sendEmbeds"
        /\ Len(calls[c].args.embeds) = 11
        /\ HasThrown(calls[c])

\* C2: a call of sendEmbeds with 1 to 10 embeds has issued exactly one
\* request, whose payload and whose JSON body list those embeds in order.
C2_ValidCountDispatchedOnce ==
    \A c \in DOMAIN calls :
        LET call == calls[c]
            es == call.args.embeds
        IN  (call.op = "sendEmbeds" /\ Len(es) >= 1 /\ Len(es) <= 10)
            => /\ call.requests = 1
               /\ call.payload # Undefined
               /\ call.payload[1].embeds # Undefined
               /\ Len(call.payload[1].embeds[1]) = Len(es)
               /\ \A i \in 1..Len(es) : call.payload[1].embeds[1][i] = es[i]
               /\ Member(call.body[1], "embeds") # Undefined
               /\ Len(Member(call.body[1], "embeds")[1]) = Len(es)
               /\ \A i \in 1..Len(es) :
                     Member(call.body[1], "embeds")[1][i] = JSONEmbed(es[i])

C2_Witness ==
    \E c \in DOMAIN calls :
        /\ calls[c].op = "sendEmbeds"
        /\ Len(calls[c].args.embeds) = 10
        /\ calls[c].args.embeds[1] # calls[c].args.embeds[2]
        /\ calls[c].pc = "done"
        /\ calls[c].requests = 1

\* the characters of u begin with those of the required prefix
BeginsWithPrefix(u) ==
    \A i \in 1..Len(WEBHOOK_PREFIX) : i <= Len(u) /\ u[i] = WEBHOOK_PREFIX[i]

C4_DeadlineGivesTimeoutError ==
    [][\A c \in DOMAIN calls :
         (calls[c].pc = "awaitFetch" /\ calls[c].timer = "armed"
          /\ calls'[c].timer = "fired")
         => /\ calls'[c].aborted
            /\ calls'[c].response = Undefined
            /\ HasThrown(calls'[c])
            /\ IsTimeoutError(ThrownBy(calls'[c]))
            /\ ThrownBy(calls'[c]).message[3] = ToString(client[1].timeout)]_vars

C4_Witness ==
    \E c \in DOMAIN calls :
        /\ calls[c].timer = "fired"
        /\ calls[c].caught = Some(AbortError)
        /\ client[1].timeout = 50
        /\ HasThrown(calls[c])
        /\ ThrownBy(calls[c]).message[3] = "50"

\* the RemoteError that carries the response's status, its status text and
\* the body text
RemoteErrorOf(resp, text) ==
    [isError |-> TRUE, name |-> "Error",
     message |-> <<"Failed to send webhook: ", "Discord API error: ",
                   ToString(resp.status), " ", resp.statusText, " - ", text>>]

NonSuccess(call) ==
    /\ call.response # Undefined
    /\ (call.response[1].status < 200 \/ call.response[1].status > 299)

\* C5 as claimed: a call that received a status outside 200-299 and has
\* ended, has ended with a RemoteError carrying status, status text and body.
C5_NonSuccessAlwaysRemoteError ==
    \A c \in DOMAIN calls :
        (NonSuccess(calls[c]) /\ calls[c].pc = "done")
        => /\ HasThrown(calls[c])
           /\ IsRemoteError(ThrownBy(calls[c]))

\* C5 as amended: a call that received a status outside 200-299 goes on to
\* read the body and never returns normally; when the read yields the text
\* it ends with the RemoteError carrying status, status text and that text,
\* and when the read fails it ends with a TransportError carrying the
\* failure's description.
C5_NonSuccessNeverReturns ==
    \A c \in DOMAIN calls :
        LET call == calls[c] IN
        NonSuccess(call)
        => /\ call.pc \in {"awaitText", "done"}
           /\ call.outcome # Returned
           /\ call.pc = "done" =>
                 /\ HasThrown(call)
                 /\ call.errorText # Undefined =>
                       ThrownBy(call) = RemoteErrorOf(call.response[1],
                                                      call.errorText[1])
                 /\ call.errorText = Undefined =>
                       /\ IsTransportError(ThrownBy(call))
                       /\ ThrownBy(call).message =
                             <<"Failed to send webhook: ">> \o call.caught[1].message

C5_Witness ==
    \E c \in DOMAIN calls :
        /\ calls[c].response # Undefined
        /\ calls[c].response[1].status = 404
        /\ calls[c].errorText = Some("Unknown Webhook")
        /\ HasThrown(calls[c])
        /\ IsRemoteError(ThrownBy(calls[c]))

\* C6: a call whose catch block caught a failure of the transport (not the
\* abort, not its own "Discord API error") has ended with a TransportError
\* whose message carries that failure's message; it is neither a
\* TimeoutError nor a RemoteError.
C6_TransportFailureGivesTransportError ==
    \A c \in DOMAIN calls :
        LET call == calls[c] IN
        (call.caught # Undefined /\ call.caught[1] \in TransportFailures)
        => /\ HasThrown(call)
           /\ IsTransportError(ThrownBy(call))
           /\ ~IsTimeoutError(ThrownBy(call))
           /\ ~IsRemoteError(ThrownBy(call))
           /\ ThrownBy(call).message =
                 <<"Failed to send webhook: ">> \o call.caught[1].message

C6_Witness ==
    \E c \in DOMAIN calls :
        /\ calls[c].caught # Undefined
        /\ calls[c].caught[1] \in TransportFailures
        /\ calls[c].response = Undefined
        /\ calls[c].requests = 1
        /\ HasThrown(calls[c])

\* C7: a call never issues a second request, a call whose attempt failed has
\* ended by throwing, and only a call that received a 2xx status returns.
C7_NoRetries ==
    \A c \in DOMAIN calls :
        LET call == calls[c] IN
        /\ call.requests <= 1
        /\ call.caught # Undefined => HasThrown(call)
        /\ (call.pc = "done" /\ call.outcome = Returned) =>
              /\ call.requests = 1
              /\ call.response # Undefined
              /\ ~NonSuccess(call)

C7_Witness ==
    \E c \in DOMAIN calls :
        /\ calls[c].op = "send"
        /\ calls[c].caught # Undefined
        /\ calls[c].caught[1] \in TransportFailures
        /\ calls[c].requests = 1
        /\ HasThrown(calls[c])

\* the fixed colour of a status
ColorOf(status) ==
    CASE status = "success" -> 5763719
      [] status = "warning" -> 16705372
      [] status = "error"   -> 15548997
      [] status = "info"    -> 5793266

Supplied(o) == o # Undefined /\ o[1] # ""

\* C8: the payload of a sendStatus call has no content and exactly one
\* embed, with the title given, the colour of the status and a timestamp,
\* and with description, fields and image present exactly when the
\* argument was supplied and not empty; the JSON body has the same members.
C8_StatusEmbedShape ==
    \A c \in DOMAIN calls :
        LET call == calls[c]
            a == call.args
            e == call.payload[1].embeds[1][1]
            j == Member(call.body[1], "embeds")[1][1]
        IN  call.op = "sendStatus"
            => /\ call.payload # Undefined
               /\ call.payload[1].content = Undefined
               /\ Member(call.body[1], "content") = Undefined
               /\ Len(call.payload[1].embeds[1]) = 1
               /\ Len(Member(call.body[1], "embeds")[1]) = 1
               /\ e.title = Some(a.title)
               /\ e.color = Some(ColorOf(a.status))
               /\ e.timestamp # Undefined
               /\ e.description = IF Supplied(a.description)
                                  THEN a.description ELSE Undefined
               /\ e.fields = IF a.fields # Undefined /\ a.fields[1] # << >>
                             THEN a.fields ELSE Undefined
               /\ e.image = IF Supplied(a.imageUrl)
                            THEN Some([url |-> a.imageUrl[1]]) ELSE Undefined
               /\ Member(j, "title") = Some(a.title)
               /\ Member(j, "color") = Some(ColorOf(a.status))
               /\ Member(j, "timestamp") # Undefined
               /\ (Member(j, "description") # Undefined) <=> Supplied(a.description)
               /\ (Member(j, "fields") # Undefined)
                     <=> (a.fields # Undefined /\ a.fields[1] # << >>)
               /\ (Member(j, "image") # Undefined) <=> Supplied(a.imageUrl)

C8_Witness ==
    \E c \in DOMAIN calls :
        /\ calls[c].op = "sendStatus"
        /\ calls[c].args.fields = Some(<< >>)
        /\ calls[c].args.imageUrl = Some("")
        /\ calls[c].args.description = Some("all good")
        /\ calls[c].requests = 1
        /\ calls[c].payload[1].embeds[1][1].description = Some("all good")
        /\ calls[c].payload[1].embeds[1][1].fields = Undefined

\* C9 as claimed: the builder given addFields(fields) and the builder given
\* one addField per element hold equal embeds.
C9_AddFieldsIsRepeatedAddField == build(embed) = build(twin)

\* C10: the fields of the built embed are the fields appended so far, in
\* the order appended.
C10_FieldsInInsertionOrder == FieldsOrEmpty(build(embed)) = appended

C10_Witness ==
    /\ Len(appended) = 3
    /\ appended[1] = [name |-> "a", value |-> "1", inline |-> Some(FALSE)]
    /\ appended[2] = [name |-> "b", value |-> "2", inline |-> Some(TRUE)]
    /\ appended[3] = [name |-> "a", value |-> "1", inline |-> Some(FALSE)]
    /\ embed.title # Undefined
    /\ FieldsOrEmpty(build(embed)) = appended

\* C11: when the latest call on the builder is setStatusColor(status), the
\* colour of the built embed is the fixed colour of that status, whatever
\* was called before; and the table of colours is the fixed one.
C11_StatusColorIsTheConstant ==
    /\ last.op = "setStatusColor" =>
          build(embed).color = Some(ColorOf(last.status))
    /\ \A s \in Statuses : STATUS_COLORS[s] = ColorOf(s)
    /\ DOMAIN STATUS_COLORS = {"success", "warning", "error", "info"}

C11_Witness ==
    /\ last.op = "setStatusColor"
    /\ last.status = "error"
    /\ last.earlier
    /\ build(embed).color = Some(15548997)
    /\ Len(FieldsOrEmpty(embed)) = 2

\* C12: build() leaves the builder as it is and returns its current state:
\* the embed always is what the mutator calls made since creation add up
\* to, a build() returns exactly that, and a build() made right after a
\* build() returns an equal embed.
C12_BuildIdempotentNoReset ==
    /\ embed = accum
    /\ last.op = "build" =>
          /\ last.returned = Some(accum)
          /\ last.previous # Undefined => last.previous = last.returned

C12_Witness ==
    /\ last.op = "build"
    /\ last.previous # Undefined
    /\ last.earlier
    /\ last.returned = Some(embed)
    /\ embed.title # Undefined
    /\ embed.color = Some(5763719)
    /\ Len(FieldsOrEmpty(embed)) = 3

\* C13 as claimed: every call that has reached the await of fetch
\* eventually ends, returning or throwing.
C13_EveryDispatchReturns ==
    \A c \in CallIds : (calls[c].pc = "awaitFetch") ~> (calls[c].pc = "done")

\* C14: with two callers on one client, no step of a send operation, of a
\* request or of a timer changes the client; every step changes the record
\* of one call at most; and a call ends with a TimeoutError only at the step
\* at which its own timer fires.
C14_ConcurrentCallsIndependent ==
    [][/\ client # Undefined => client' = client
       /\ \A c \in DOMAIN calls, d \in DOMAIN calls :
             (c # d /\ calls'[c] # calls[c]) => calls'[d] = calls[d]
       /\ \A c \in DOMAIN calls :
             (/\ calls[c].pc # "done"
              /\ HasThrown(calls'[c])
              /\ IsTimeoutError(ThrownBy(calls'[c])))
             => /\ calls[c].timer = "armed"
                /\ calls'[c].timer = "fired"]_vars

C14_Witness ==
    /\ DOMAIN calls = {1, 2}
    /\ HasThrown(calls[1])
    /\ IsTimeoutError(ThrownBy(calls[1]))
    /\ calls[1].timer = "fired"
    /\ calls[2].pc = "awaitFetch"
    /\ calls[2].requests = 1
    /\ calls[2].timer = "armed"
    /\ ~calls[2].aborted

\* C15: a call of send, whatever its embed list (absent, empty, longer
\* than 10), has issued exactly one request, whose payload and JSON body
\* carry the content and that list unchanged, and has thrown no
\* ValidationError.
C15_SendDoesNotValidate ==
    \A c \in DOMAIN calls :
        LET call == calls[c]
            a == call.args
            j == Member(call.body[1], "embeds")
        IN  call.op = "send"
            => /\ call.requests = 1
               /\ call.timers = 1
               /\ HasThrown(call) => ~IsValidationError(ThrownBy(call))
               /\ call.payload # Undefined
               /\ call.payload[1].content = Some(a.content)
               /\ call.payload[1].embeds = a.embeds
               /\ Member(call.body[1], "content") = Some(a.content)
               /\ (j = Undefined) <=> (a.embeds = Undefined)
               /\ a.embeds # Undefined =>
                     /\ Len(j[1]) = Len(a.embeds[1])
                     /\ \A i \in 1..Len(a.embeds[1]) :
                           j[1][i] = JSONEmbed(a.embeds[1][i])

C15_Witness ==
    \E c \in DOMAIN calls :
        /\ calls[c].op = "send"
        /\ calls[c].args.embeds # Undefined
        /\ Len(calls[c].args.embeds[1]) > 10
        /\ calls[c].requests = 1
        /\ calls[c].outcome = Returned

\* C16 as claimed: the timer of a call that has ended is not armed.
C16_NoTimerPendingAfterCompletion ==
    \A c \in DOMAIN calls : calls[c].pc = "done" => calls[c].timer # "armed"

====
